---- MODULE Spec2Model ----
(***************************************************************************)
(* Model of proxmoxdeploy/proxmox.py: the ProxmoxClient wrapper.           *)
(*                                                                         *)
(* Strings are sequences of one-character strings, so that str.format,     *)
(* os.path.basename, os.path.join and the `in` substring test are          *)
(* computed as Python computes them.  Optional arguments (None or a value) *)
(* are None == <<>> or Some(v) == <<v>>.                                   *)
(***************************************************************************)
EXTENDS Integers, Sequences, FiniteSets, TLC

(***************************************************************************)
(* Strings                                                                 *)
(***************************************************************************)
None == << >>
Some(v) == << v >>

\* Python truthiness of an optional int argument: None and 0 are falsy.
Truthy(opt) == opt # None /\ opt[1] # 0

\* Python truthiness of an optional str argument: None and "" are falsy.
TruthyStr(opt) == opt # None /\ opt[1] # << >>

Digit(d) == CASE d = 0 -> "0" [] d = 1 -> "1" [] d = 2 -> "2" [] d = 3 -> "3"
              [] d = 4 -> "4" [] d = 5 -> "5" [] d = 6 -> "6" [] d = 7 -> "7"
              [] d = 8 -> "8" [] d = 9 -> "9"

RECURSIVE IntToStr(_)
\* "{0}".format(n) for a non-negative int n
IntToStr(n) == IF n < 10 THEN << Digit(n) >>
               ELSE IntToStr(n \div 10) \o << Digit(n % 10) >>

\* Python's `sub in s` for strings
Contains(sub, s) ==
    \E i \in 0..(Len(s) - Len(sub)) : SubSeq(s, i + 1, i + Len(sub)) = sub

EndsWith(s, suffix) ==
    /\ Len(suffix) <= Len(s)
    /\ SubSeq(s, Len(s) - Len(suffix) + 1, Len(s)) = suffix

\* os.path.basename: everything after the last "/"
basename(path) ==
    LET slashes == { i \in 1..Len(path) : path[i] = "/" }
        last    == IF slashes = {} THEN 0
                   ELSE CHOOSE i \in slashes : \A j \in slashes : j <= i
    IN  SubSeq(path, last + 1, Len(path))

\* os.path.join(dir, name) for a name that does not start with "/"
join(dir, name) == IF EndsWith(dir, << "/" >>) THEN dir \o name
                   ELSE dir \o << "/" >> \o name

(***************************************************************************)
(* Data the operations are called with                                     *)
(***************************************************************************)
RAW   == << "r", "a", "w" >>
QCOW2 == << "q", "c", "o", "w", "2" >>
DiskFormats == { RAW, QCOW2 }

CLOUDINIT_SEED == << "c","l","o","u","d","i","n","i","t","-","s","e","e","d" >>
BASE_DISK      == << "b","a","s","e","-","d","i","s","k" >>
DATA_LABEL     == << "d","a","t","a" >>

TMP == << "/", "t", "m", "p" >>

PVE1 == << "p", "v", "e", "1" >>
PVE2 == << "p", "v", "e", "2" >>
Nodes == { PVE1, PVE2 }

STORE_LOCAL == << "l", "o", "c", "a", "l" >>
STORE_VG    == << "v", "g" >>
STORE_TANK  == << "t", "a", "n", "k" >>
Storages == { STORE_LOCAL, STORE_VG, STORE_TANK }

\* the 'type' field of client.nodes(node).storage(storage).status.get()
StorageType(storage) == CASE storage = STORE_LOCAL -> "dir"
                          [] storage = STORE_VG    -> "lvm"
                          [] storage = STORE_TANK  -> "zfs"

Vmids == { 100, 101 }

\* Local files: name, content and st_size.  Two of them share a basename.
FILE_A_SEED == << "/", "a", "/", "s", "e", "e", "d" >>
FILE_B_SEED == << "/", "b", "/", "s", "e", "e", "d" >>
FILE_A_BASE == << "/", "a", "/", "b", "a", "s", "e" >>
Filenames == { FILE_A_SEED, FILE_B_SEED, FILE_A_BASE }

FileData(filename) == CASE filename = FILE_A_SEED -> "dataA"
                        [] filename = FILE_B_SEED -> "dataB"
                        [] filename = FILE_A_BASE -> "dataC"

KB == 1024
\* os.stat(filename).st_size
st_size(filename) == CASE filename = FILE_A_SEED -> 5 * KB * KB
                       [] filename = FILE_B_SEED -> KB + 1
                       [] filename = FILE_A_BASE -> KB - 1

NoFile == "absent"
StagingPaths == { join(TMP, basename(f)) : f \in Filenames }

MaxDiskSizeKB == 2
\* explicit disk_size arguments: None, 0 and positive sizes
DiskSizeArgs == { None } \cup { Some(n) : n \in 0..MaxDiskSizeKB }

(***************************************************************************)
(* State                                                                   *)
(***************************************************************************)
Procs == { 1, 2 }

VARIABLES
    pc,        \* pc[p]: position of caller p inside its current call
    call,      \* call[p]: the operation p called and its arguments
    loc,       \* loc[p]: local variables of upload / _upload_to_storage
    sshlog,    \* sshlog[p]: operations p's call issued on the ssh session
    apilog,    \* apilog[p]: cluster API requests p's call issued
    result,    \* result[p]: return value or raised exception of the call
    remote,    \* remote[path]: content of the staging file on the host
    cluster    \* cluster[node]: what the cluster API reports for the node

vars == << pc, call, loc, sshlog, apilog, result, remote, cluster >>

NoCall == [ op |-> "none" ]
NoLoc  == [ diskname |-> << >>, storagename |-> << >>, disk_format |-> << >>,
            disk_size |-> None, tmpfile |-> << >>,
            stdout |-> << >>, stderr |-> << >>, devicepath |-> << >>,
            attach_diskname |-> << >> ]
NoResult == [ kind |-> "none" ]

GB == 1024 * 1024 * 1024
\* byte counts the API may report: just below and at 1 GiB, and the largest
\* below 2 GiB
ByteCounts == { GB - 1, GB, GB + (GB - 1) }

MB == 1024 * 1024
\* memory byte counts exceed 32 bits: a count is mib * 1024^2 + rest bytes
Wide(mib, rest) == [ mib |-> mib, rest |-> rest ]
MemCounts == { Wide(m, r) : m \in { 2047, 16384 }, r \in { 0, MB - 1, MB + 1 } }

\* per node: 'maxdisk' of nodes.get(), and 'avail' of storage.get(storage=s)
ResolverStorages == { STORE_LOCAL, STORE_VG }
DiskReports == [ maxdisk : ByteCounts, avail : [ ResolverStorages -> ByteCounts ] ]
\* per node: 'maxcpu' and 'maxmem' of nodes.get(); 'cpuinfo' and
\* 'memory' of nodes(node).status.get()
CpuMemReports == [ maxcpu : { 4, 8 }, maxmem : { Wide(2047, 0), Wide(16384, MB - 1) },
                   cpus : { 4 }, sockets : { 1, 2 }, memtotal : MemCounts ]
DefaultCpuMem == [ maxcpu |-> 8, maxmem |-> Wide(16384, 0),
                   cpus |-> 4, sockets |-> 2, memtotal |-> Wide(16384, 0) ]
\* everything the API reports for one node
Report(d, c) == [ maxdisk |-> d.maxdisk, avail |-> d.avail,
                  maxcpu |-> c.maxcpu, maxmem |-> c.maxmem,
                  cpus |-> c.cpus, sockets |-> c.sockets,
                  memtotal |-> c.memtotal ]
NodeReports == { Report(d, DefaultCpuMem) : d \in DiskReports }
Clusters == [ Nodes -> NodeReports ]
DefaultCluster == [ n \in Nodes |->
                      Report([ maxdisk |-> GB,
                               avail |-> [ s \in ResolverStorages |-> GB ] ],
                             DefaultCpuMem) ]

Idle ==
    /\ pc     = [ p \in Procs |-> "idle" ]
    /\ call   = [ p \in Procs |-> NoCall ]
    /\ loc    = [ p \in Procs |-> NoLoc ]
    /\ sshlog = [ p \in Procs |-> << >> ]
    /\ apilog = [ p \in Procs |-> << >> ]
    /\ result = [ p \in Procs |-> NoResult ]
    /\ remote = [ path \in StagingPaths |-> NoFile ]

Init == Idle /\ cluster = DefaultCluster

(***************************************************************************)
(* What the remote tools may answer.  The session returns (stdout, stderr) *)
(* of each command; the code has no other success signal.                  *)
(***************************************************************************)
DEVPATH == << "/", "d", "e", "v" >>
ERRTEXT == << "e", "r", "r" >>
Quote(s) == << "'" >> \o s \o << "'" >>

\* stdout texts a command may print: nothing, a text that contains the
\* canonical identifier, a text that does not
StdoutText(kind, storagename) ==
    CASE kind = "empty" -> << >>
      [] kind = "id"    -> Quote(storagename)
      [] kind = "other" -> DEVPATH
Stdouts == { "empty", "id", "other" }
\* the same without the third text, for the two-caller specification
BriefStdouts == { "empty", "id" }
Stderrs == { << >>, ERRTEXT }

(***************************************************************************)
(* Storage Backend Strategy: names and format per backend                  *)
(***************************************************************************)
VM_PREFIX == << "v", "m", "-" >>

\* variant: the directory disk name without its extension
flat_diskname_NoExtension(vmid, disk_label, disk_format) ==
    VM_PREFIX \o IntToStr(vmid) \o << "-" >> \o disk_label

\* "vm-{0}-{1}.{2}".format(vmid, disk_label, disk_format)
flat_diskname(vmid, disk_label, disk_format) ==
    VM_PREFIX \o IntToStr(vmid) \o << "-" >> \o disk_label
              \o << "." >> \o disk_format

\* "{0}:{1}/{2}".format(storage, vmid, diskname)
flat_storagename(storage, vmid, diskname) ==
    storage \o << ":" >> \o IntToStr(vmid) \o << "/" >> \o diskname

\* "vm-{0}-{1}".format(vmid, disk_label)
lvm_diskname(vmid, disk_label) ==
    VM_PREFIX \o IntToStr(vmid) \o << "-" >> \o disk_label

\* "{0}:{1}".format(storage, diskname)
lvm_storagename(storage, diskname) == storage \o << ":" >> \o diskname

\* variant: the requested format is handed on
lvm_disk_format_AsRequested(disk_format) == disk_format

\* LVM only supports raw disks, overwrite the disk_format here.
lvm_disk_format(disk_format) == RAW

\* the format _upload_to_flat_storage hands on
flat_disk_format(disk_format) == disk_format

\* the arguments _upload_to_flat_storage passes to _upload_to_storage
upload_to_flat_storage(storage, vmid, disk_format, disk_label) ==
    LET diskname == flat_diskname(vmid, disk_label, disk_format)
    IN  [ diskname    |-> diskname,
          storagename |-> flat_storagename(storage, vmid, diskname),
          disk_format |-> flat_disk_format(disk_format) ]

\* the arguments _upload_to_lvm_storage passes to _upload_to_storage
upload_to_lvm_storage(storage, vmid, disk_format, disk_label) ==
    LET diskname == lvm_diskname(vmid, disk_label)
    IN  [ diskname    |-> diskname,
          storagename |-> lvm_storagename(storage, diskname),
          disk_format |-> lvm_disk_format(disk_format) ]

\* variant: every type but lvm is treated as a directory
UploadDispatch_DirByDefault(type) == IF type = "lvm" THEN "lvm" ELSE "flat"

\* the branch upload() takes for a storage type
UploadDispatch(type) == IF type = "dir" THEN "flat"
                        ELSE IF type = "lvm" THEN "lvm"
                        ELSE "ValueError"

(***************************************************************************)
(* _upload_to_storage: helpers                                             *)
(***************************************************************************)
\* tmpfile = os.path.join("/tmp", os.path.basename(filename))
tmpfile_of(filename) == join(TMP, basename(filename))

\* if not disk_size: disk_size = int(math.ceil(os.stat(filename).st_size / 1024))
\* (Python 2: `/` on two ints is floor division, so ceil has nothing to round)
effective_disk_size(disk_size, filename) ==
    IF ~Truthy(disk_size) THEN st_size(filename) \div KB
    ELSE disk_size[1]

\* variant: either sign alone fails the allocation
AllocFailed_Either(storagename, stdout, stderr) ==
    ~Contains(storagename, stdout) \/ Len(stderr) > 0

\* variant: the allocation's output is not tested
AllocFailed_Never(storagename, stdout, stderr) == FALSE

\* if storagename not in stdout and len(stderr) > 0: raise
AllocFailed(storagename, stdout, stderr) ==
    ~Contains(storagename, stdout) /\ Len(stderr) > 0

\* variant: error text is fatal only when stdout is empty
PathFailed_UnlessStdout(stdout, stderr) == Len(stderr) > 0 /\ Len(stdout) = 0

\* if len(stderr) > 0: raise   (pvesm path)
PathFailed(stdout, stderr) == Len(stderr) > 0

\* variant: the conversion's error text is ignored
ConvertFailed_Never(stdout, stderr) == FALSE

\* if len(stderr) > 0: raise   (qemu-img convert)
ConvertFailed(stdout, stderr) == Len(stderr) > 0

\* variant: the exception keeps only the error stream
SSHCommandInvocationException_NoStdout(msg, stdout, stderr) ==
    [ kind |-> "SSHCommandInvocationException", msg |-> msg,
      stdout |-> << >>, stderr |-> stderr ]

SSHCommandInvocationException(msg, stdout, stderr) ==
    [ kind |-> "SSHCommandInvocationException", msg |-> msg,
      stdout |-> stdout, stderr |-> stderr ]

ValueError(msg) == [ kind |-> "ValueError", msg |-> msg ]

\* an exception of the session itself (connection loss), propagated unchanged
TransportError == [ kind |-> "TransportError" ]

Return(value) == [ kind |-> "return", value |-> value ]

\* variant: the conversion is started before the path is resolved
StepAfter_ConvertFirst(step) == CASE step = "stage"   -> "alloc"
                                  [] step = "alloc"   -> "convert"
                                  [] step = "convert" -> "path"
                                  [] step = "path"    -> "rm"
                                  [] step = "rm"      -> "return"

\* the statement order of _upload_to_storage
StepAfter(step) == CASE step = "stage"   -> "alloc"
                     [] step = "alloc"   -> "path"
                     [] step = "path"    -> "convert"
                     [] step = "convert" -> "rm"
                     [] step = "rm"      -> "return"

\* one operation on the ssh session, as the session saw it
\* (data: what a file transfer wrote, or what qemu-img read from its source)
SshOp(step, cmd, returned, stdout, stderr, data) ==
    [ step |-> step, cmd |-> cmd, returned |-> returned,
      stdout |-> stdout, stderr |-> stderr, data |-> data ]

Raise(p, exc) ==
    /\ pc' = [ pc EXCEPT ![p] = "error" ]
    /\ result' = [ result EXCEPT ![p] = exc ]

(***************************************************************************)
(* Calls.  A caller is idle, or inside one call of the client.             *)
(***************************************************************************)
StartCall(p, c) ==
    /\ pc[p] = "idle"
    /\ call' = [ call EXCEPT ![p] = c ]
    /\ pc' = [ pc EXCEPT ![p] = "upload" ]
    /\ UNCHANGED << loc, sshlog, apilog, result, remote, cluster >>

\* attach_seed_iso(node, storage, vmid, iso_file), up to its call of upload()
CallAttachSeedIso(p, storages, vmids, files) ==
    \E storage \in storages, vmid \in vmids, iso_file \in files :
        StartCall(p, [ op |-> "attach_seed_iso", node |-> PVE1,
                       storage |-> storage, vmid |-> vmid,
                       filename |-> iso_file, disk_format |-> RAW,
                       disk_label |-> CLOUDINIT_SEED, disk_size |-> None ])

\* attach_base_disk(node, storage, vmid, img_file, disk_size), up to upload()
CallAttachBaseDisk(p, storages, vmids, files) ==
    \E storage \in storages, vmid \in vmids, img_file \in files,
       disk_size \in DiskSizeArgs :
        StartCall(p, [ op |-> "attach_base_disk", node |-> PVE1,
                       storage |-> storage, vmid |-> vmid,
                       filename |-> img_file, disk_format |-> QCOW2,
                       disk_label |-> BASE_DISK, disk_size |-> disk_size ])

\* upload(node, storage, vmid, filename, disk_format, disk_label, disk_size)
\* called directly
CallUpload(p, storages, vmids, files) ==
    \E storage \in storages, vmid \in vmids, filename \in files,
       disk_format \in DiskFormats, disk_size \in { None, Some(MaxDiskSizeKB) } :
        StartCall(p, [ op |-> "upload", node |-> PVE1,
                       storage |-> storage, vmid |-> vmid,
                       filename |-> filename, disk_format |-> disk_format,
                       disk_label |-> DATA_LABEL, disk_size |-> disk_size ])

\* upload(): look the storage type up, choose the backend, generate the names
Upload(p) ==
    /\ pc[p] = "upload"
    /\ LET c      == call[p]
           type   == StorageType(c.storage)
           branch == UploadDispatch(type)
           names  == IF branch = "lvm"
                     THEN upload_to_lvm_storage(c.storage, c.vmid,
                                                c.disk_format, c.disk_label)
                     ELSE upload_to_flat_storage(c.storage, c.vmid,
                                                 c.disk_format, c.disk_label)
       IN  /\ apilog' = [ apilog EXCEPT ![p] = Append(@,
                            [ api |-> "storage.status.get", node |-> c.node,
                              storage |-> c.storage ]) ]
           /\ IF branch = "ValueError"
              THEN /\ Raise(p, ValueError(
                         "Only dir and lvm storage are supported at this time"))
                   /\ UNCHANGED loc
              ELSE /\ loc' = [ loc EXCEPT ![p].diskname = names.diskname,
                                          ![p].storagename = names.storagename,
                                          ![p].disk_format = names.disk_format,
                                          ![p].disk_size = c.disk_size ]
                   /\ pc' = [ pc EXCEPT ![p] = "stage" ]
                   /\ UNCHANGED result
    /\ UNCHANGED << call, sshlog, remote, cluster >>

\* variant: rm is given the local file name
Cmd_RmLocalFile(p, step) ==
    CASE step = "alloc" ->
           [ tool |-> "pvesm alloc", storage |-> call[p].storage,
             vmid |-> call[p].vmid, diskname |-> loc[p].diskname,
             size |-> loc[p].disk_size, format |-> loc[p].disk_format ]
      [] step = "path" ->
           [ tool |-> "pvesm path", storagename |-> loc[p].storagename ]
      [] step = "convert" ->
           [ tool |-> "qemu-img convert", format |-> loc[p].disk_format,
             src |-> loc[p].tmpfile, dst |-> loc[p].devicepath ]
      [] step = "rm" ->
           [ tool |-> "rm", path |-> call[p].filename ]

\* the command line of each step, as its arguments
Cmd(p, step) ==
    CASE step = "alloc" ->
           [ tool |-> "pvesm alloc", storage |-> call[p].storage,
             vmid |-> call[p].vmid, diskname |-> loc[p].diskname,
             size |-> loc[p].disk_size, format |-> loc[p].disk_format ]
      [] step = "path" ->
           [ tool |-> "pvesm path", storagename |-> loc[p].storagename ]
      [] step = "convert" ->
           [ tool |-> "qemu-img convert", format |-> loc[p].disk_format,
             src |-> loc[p].tmpfile, dst |-> loc[p].devicepath ]
      [] step = "rm" ->
           [ tool |-> "rm", path |-> loc[p].tmpfile ]

\* 1. ssh_session.upload_file_obj(_file, tmpfile); then the size is computed
Stage(p) ==
    /\ pc[p] = "stage"
    /\ LET tmpfile == tmpfile_of(call[p].filename)
           data    == FileData(call[p].filename)
       IN  /\ remote' = [ remote EXCEPT ![tmpfile] = data ]
           /\ sshlog' = [ sshlog EXCEPT ![p] = Append(@,
                            SshOp("stage", [ tool |-> "upload_file_obj",
                                             path |-> tmpfile ],
                                  TRUE, << >>, << >>, data)) ]
           /\ loc' = [ loc EXCEPT ![p].tmpfile = tmpfile,
                                  ![p].disk_size = effective_disk_size(
                                        loc[p].disk_size, call[p].filename) ]
    /\ pc' = [ pc EXCEPT ![p] = StepAfter("stage") ]
    /\ UNCHANGED << call, apilog, result, cluster >>

\* the file transfer raises (connection loss): nothing else is issued
StageFails(p) ==
    /\ pc[p] = "stage"
    /\ sshlog' = [ sshlog EXCEPT ![p] = Append(@,
                     SshOp("stage", [ tool |-> "upload_file_obj",
                                      path |-> tmpfile_of(call[p].filename) ],
                           FALSE, << >>, << >>, NoFile)) ]
    /\ Raise(p, TransportError)
    /\ UNCHANGED << call, loc, apilog, remote, cluster >>

\* 2. pvesm alloc
Allocate(p, kinds) ==
    /\ pc[p] = "alloc"
    /\ \E kind \in kinds, stderr \in Stderrs :
      LET stdout == StdoutText(kind, loc[p].storagename) IN
        /\ sshlog' = [ sshlog EXCEPT ![p] = Append(@,
                         SshOp("alloc", Cmd(p, "alloc"), TRUE,
                               stdout, stderr, NoFile)) ]
        /\ loc' = [ loc EXCEPT ![p].stdout = stdout, ![p].stderr = stderr ]
        /\ IF AllocFailed(loc[p].storagename, stdout, stderr)
           THEN Raise(p, SSHCommandInvocationException(
                            "Failed to allocate disk", stdout, stderr))
           ELSE /\ pc' = [ pc EXCEPT ![p] = StepAfter("alloc") ]
                /\ UNCHANGED result
    /\ UNCHANGED << call, apilog, remote, cluster >>

\* 3. pvesm path
ResolvePath(p, kinds) ==
    /\ pc[p] = "path"
    /\ \E kind \in kinds, stderr \in Stderrs :
      LET stdout == StdoutText(kind, loc[p].storagename) IN
        /\ sshlog' = [ sshlog EXCEPT ![p] = Append(@,
                         SshOp("path", Cmd(p, "path"), TRUE,
                               stdout, stderr, NoFile)) ]
        /\ IF PathFailed(stdout, stderr)
           THEN /\ Raise(p, SSHCommandInvocationException(
                            "Failed to get path for disk", stdout, stderr))
                /\ loc' = [ loc EXCEPT ![p].stdout = stdout,
                                       ![p].stderr = stderr ]
           ELSE /\ pc' = [ pc EXCEPT ![p] = StepAfter("path") ]
                /\ loc' = [ loc EXCEPT ![p].stdout = stdout,
                                       ![p].stderr = stderr,
                                       ![p].devicepath = stdout ]
                /\ UNCHANGED result
    /\ UNCHANGED << call, apilog, remote, cluster >>

\* 4. qemu-img convert, which reads the staging file as it is on the host now
Convert(p, kinds) ==
    /\ pc[p] = "convert"
    /\ \E kind \in kinds, stderr \in Stderrs :
      LET stdout == StdoutText(kind, loc[p].storagename) IN
        /\ sshlog' = [ sshlog EXCEPT ![p] = Append(@,
                         SshOp("convert", Cmd(p, "convert"), TRUE,
                               stdout, stderr, remote[loc[p].tmpfile])) ]
        /\ loc' = [ loc EXCEPT ![p].stdout = stdout, ![p].stderr = stderr ]
        /\ IF ConvertFailed(stdout, stderr)
           THEN Raise(p, SSHCommandInvocationException(
                            "Failed to copy file into disk", stdout, stderr))
           ELSE /\ pc' = [ pc EXCEPT ![p] = StepAfter("convert") ]
                /\ UNCHANGED result
    /\ UNCHANGED << call, apilog, remote, cluster >>

\* where a call continues once _upload_to_storage has returned: upload()
\* returns the canonical name, and an attach operation goes on to bind it
AfterUpload(op) == IF op = "upload" THEN "done" ELSE "bind"

\* variant: error text of rm fails the call like that of the other commands
CleanupFailed_OnStderr(stdout, stderr) == Len(stderr) > 0

\* line 277 drops what _exec returns: no output of rm fails the call
CleanupFailed(stdout, stderr) == FALSE

\* 5. rm of the staging file; its output is not looked at.  The file is gone
\* when rm reported nothing, and still there when rm reported an error.
Cleanup(p, kinds) ==
    /\ pc[p] = "rm"
    /\ \E kind \in kinds, stderr \in Stderrs :
      LET stdout == StdoutText(kind, loc[p].storagename) IN
        /\ sshlog' = [ sshlog EXCEPT ![p] = Append(@,
                         SshOp("rm", Cmd(p, "rm"), TRUE,
                               stdout, stderr, NoFile)) ]
        /\ remote' = IF stderr = << >>
                     THEN [ remote EXCEPT ![loc[p].tmpfile] = NoFile ]
                     ELSE remote
        /\ IF CleanupFailed(stdout, stderr)
           THEN /\ Raise(p, SSHCommandInvocationException(
                            "Failed to remove file", stdout, stderr))
                /\ UNCHANGED loc
           ELSE IF StepAfter("rm") = "return"
           THEN /\ pc' = [ pc EXCEPT ![p] = AfterUpload(call[p].op) ]
                /\ loc' = [ loc EXCEPT
                              ![p].attach_diskname = loc[p].storagename ]
                /\ result' = [ result EXCEPT ![p] =
                                 IF call[p].op = "upload"
                                 THEN Return(loc[p].storagename) ELSE @ ]
           ELSE /\ pc' = [ pc EXCEPT ![p] = StepAfter("rm") ]
                /\ UNCHANGED << loc, result >>
    /\ UNCHANGED << call, apilog, cluster >>

\* ssh_session._exec raises (connection loss) instead of returning
ExecFails(p) ==
    /\ pc[p] \in { "alloc", "path", "convert", "rm" }
    /\ sshlog' = [ sshlog EXCEPT ![p] = Append(@,
                     SshOp(pc[p], Cmd(p, pc[p]), FALSE, << >>, << >>, NoFile)) ]
    /\ Raise(p, TransportError)
    /\ UNCHANGED << call, loc, apilog, remote, cluster >>

\* variant: the seed image is bound to the primary slot
ConfigFields_SeedOnVirtio0(op, diskname) ==
    IF op = "attach_seed_iso"
    THEN [ virtio0 |-> diskname ]
    ELSE [ virtio0 |-> diskname, bootdisk |-> "virtio0" ]

\* the fields an attach operation sets on the VM
ConfigFields(op, diskname) ==
    IF op = "attach_seed_iso"
    THEN [ virtio1 |-> diskname ]
    ELSE [ virtio0 |-> diskname, bootdisk |-> "virtio0" ]

\* _node.qemu(vmid).config.set(...)
ConfigSet(p) ==
    /\ pc[p] = "bind"
    /\ apilog' = [ apilog EXCEPT ![p] = Append(@,
                     [ api |-> "config.set", node |-> call[p].node,
                       vmid |-> call[p].vmid,
                       fields |-> ConfigFields(call[p].op,
                                               loc[p].attach_diskname) ]) ]
    /\ pc' = [ pc EXCEPT ![p] = "done" ]
    /\ result' = [ result EXCEPT ![p] = Return(None) ]
    /\ UNCHANGED << call, loc, sshlog, remote, cluster >>

\* the call is over; the caller may call again
Reset(p) ==
    /\ pc[p] \in { "done", "error" }
    /\ pc' = [ pc EXCEPT ![p] = "idle" ]
    /\ call' = [ call EXCEPT ![p] = NoCall ]
    /\ loc' = [ loc EXCEPT ![p] = NoLoc ]
    /\ sshlog' = [ sshlog EXCEPT ![p] = << >> ]
    /\ apilog' = [ apilog EXCEPT ![p] = << >> ]
    /\ result' = [ result EXCEPT ![p] = NoResult ]
    /\ UNCHANGED << remote, cluster >>

(***************************************************************************)
(* Spec: one caller, any sequence of calls                                 *)
(***************************************************************************)
Next ==
    \/ CallAttachSeedIso(1, Storages, Vmids, Filenames)
    \/ CallAttachBaseDisk(1, Storages, Vmids, Filenames)
    \/ CallUpload(1, Storages, Vmids, Filenames)
    \/ Upload(1)
    \/ Stage(1)
    \/ StageFails(1)
    \/ Allocate(1, Stdouts)
    \/ ResolvePath(1, Stdouts)
    \/ Convert(1, Stdouts)
    \/ Cleanup(1, Stdouts)
    \/ ExecFails(1)
    \/ ConfigSet(1)
    \/ Reset(1)

Spec == Init /\ [][Next]_vars

\* the calls are synchronous: once a command has returned, the next
\* statement runs, so a caller standing before rm does issue it
SpecLive == Spec /\ WF_vars(Cleanup(1, Stdouts) \/ ExecFails(1))

(***************************************************************************)
(* SpecConc: two callers, each with its own session to the same host,      *)
(* each attaching a seed image to its own VM                               *)
(***************************************************************************)
VmidOf(p) == IF p = 1 THEN 100 ELSE 101
\* caller 2 uploads a file with the basename of caller 1's file, or another
FilesOf(p) == IF p = 1 THEN { FILE_A_SEED } ELSE { FILE_B_SEED, FILE_A_BASE }

NextConc ==
    \E p \in Procs :
        \/ CallAttachSeedIso(p, { STORE_LOCAL }, { VmidOf(p) }, FilesOf(p))
        \/ Upload(p)
        \/ Stage(p)
        \/ StageFails(p)
        \/ Allocate(p, BriefStdouts)
        \/ ResolvePath(p, BriefStdouts)
        \/ Convert(p, BriefStdouts)
        \/ Cleanup(p, BriefStdouts)
        \/ ExecFails(p)
        \/ ConfigSet(p)

SpecConc == Init /\ [][NextConc]_vars

(***************************************************************************)
(* Resource Limit Resolver                                                 *)
(***************************************************************************)
\* int(math.floor(x / 1024 ** 3)): `/` on two ints already floors (Python 2)
BytesToGB(bytes) == bytes \div GB

SetMin(S) == CHOOSE x \in S : \A y \in S : x <= y

\* variant: the test is left out
StorageMissing_Never(storage) == FALSE

\* the test `if not storage` of get_max_disk_size
StorageMissing(storage) == ~TruthyStr(storage)

\* the name an optional str argument carries (None carries none)
NameOf(opt) == IF opt = None THEN None ELSE opt[1]

\* variant: the available bytes are rounded up to whole GiB
StorageAvail_RoundedUp(cl, node, storage) ==
    IF storage \in DOMAIN cl[node].avail
    THEN Return((cl[node].avail[storage] \div GB)
                + (IF cl[node].avail[storage] % GB = 0 THEN 0 ELSE 1))
    ELSE [ kind |-> "IndexError" ]

\* self.client.nodes(node).storage.get(storage=storage)[0]['avail']: the
\* list is empty, and [0] raises, for a storage the node does not have
StorageAvail(cl, node, storage) ==
    IF storage \in DOMAIN cl[node].avail
    THEN Return(BytesToGB(cl[node].avail[storage]))
    ELSE [ kind |-> "IndexError" ]

\* get_max_disk_size(node, storage) on cluster state cl: the API requests it
\* makes, and what it returns or raises
get_max_disk_size(cl, node, storage) ==
    IF TruthyStr(node)
    THEN IF StorageMissing(storage)
         THEN [ queries |-> << >>,
                result  |-> ValueError(
                    "A storage must also be specified for the given node") ]
         ELSE [ queries |-> << [ api |-> "nodes.storage.get",
                                 node |-> NameOf(node),
                                 storage |-> NameOf(storage) ] >>,
                result  |-> StorageAvail(cl, NameOf(node), NameOf(storage)) ]
    ELSE [ queries |-> << [ api |-> "nodes.get" ] >>,
           result  |-> Return(SetMin({ BytesToGB(cl[n].maxdisk) : n \in Nodes })) ]

\* the node and storage arguments callers pass: omitted, empty, or a name
NodeArgs    == { None, Some(<< >>) } \cup { Some(n) : n \in Nodes }
StorageArgs == { None, Some(<< >>) } \cup { Some(s) : s \in ResolverStorages }

GetMaxDiskSize(p) ==
    /\ pc[p] = "idle"
    /\ \E node \in NodeArgs, storage \in StorageArgs :
        LET r == get_max_disk_size(cluster, node, storage)
        IN  /\ call' = [ call EXCEPT ![p] = [ op |-> "get_max_disk_size",
                                              node |-> node,
                                              storage |-> storage ] ]
            /\ apilog' = [ apilog EXCEPT ![p] = r.queries ]
            /\ result' = [ result EXCEPT ![p] = r.result ]
            /\ pc' = [ pc EXCEPT ![p] =
                         IF r.result.kind = "return" THEN "done" ELSE "error" ]
    /\ UNCHANGED << loc, sshlog, remote, cluster >>

\* variant: the memory is rounded up to whole MiB
BytesToMB_RoundedUp(bytes) ==
    bytes.mib + (bytes.rest \div MB) + (IF bytes.rest % MB = 0 THEN 0 ELSE 1)

\* int(math.floor(x / 1024 ** 2)) of a wide byte count
BytesToMB(bytes) == bytes.mib + (bytes.rest \div MB)

\* get_max_cpu(node) on cluster state cl
get_max_cpu(cl, node) ==
    IF TruthyStr(node)
    THEN [ queries |-> << [ api |-> "nodes.status.get", node |-> NameOf(node) ] >>,
           result  |-> Return(cl[NameOf(node)].cpus * cl[NameOf(node)].sockets) ]
    ELSE [ queries |-> << [ api |-> "nodes.get" ] >>,
           result  |-> Return(SetMin({ cl[n].maxcpu : n \in Nodes })) ]

\* get_max_memory(node) on cluster state cl
get_max_memory(cl, node) ==
    IF TruthyStr(node)
    THEN [ queries |-> << [ api |-> "nodes.status.get", node |-> NameOf(node) ] >>,
           result  |-> Return(BytesToMB(cl[NameOf(node)].memtotal)) ]
    ELSE [ queries |-> << [ api |-> "nodes.get" ] >>,
           result  |-> Return(SetMin({ BytesToMB(cl[n].maxmem) : n \in Nodes })) ]

\* a resolver call that takes only a node: it makes its query and returns
NodeLimitCall(p, op, node, r) ==
    /\ pc[p] = "idle"
    /\ call' = [ call EXCEPT ![p] = [ op |-> op, node |-> node ] ]
    /\ apilog' = [ apilog EXCEPT ![p] = r.queries ]
    /\ result' = [ result EXCEPT ![p] = r.result ]
    /\ pc' = [ pc EXCEPT ![p] = "done" ]
    /\ UNCHANGED << loc, sshlog, remote, cluster >>

GetMaxCpu(p) ==
    \E node \in NodeArgs :
        NodeLimitCall(p, "get_max_cpu", node, get_max_cpu(cluster, node))

GetMaxMemory(p) ==
    \E node \in NodeArgs :
        NodeLimitCall(p, "get_max_memory", node, get_max_memory(cluster, node))

InitLimits == Idle /\ cluster \in Clusters

NextLimits ==
    \E p \in Procs :
        \/ GetMaxDiskSize(p)
        \/ Reset(p)

SpecLimits == InitLimits /\ [][NextLimits]_vars

(***************************************************************************)
(* SpecResolver: one caller asking for limits, on clusters whose first     *)
(* node reports any combination of values and whose second node reports    *)
(* one of a few                                                            *)
(***************************************************************************)
SecondNodeReports ==
    { Report([ maxdisk |-> md, avail |-> [ s \in ResolverStorages |-> GB ] ],
             [ maxcpu |-> mc, maxmem |-> Wide(16384, 0),
               cpus |-> 4, sockets |-> 2, memtotal |-> Wide(16384, 0) ])
        : md \in { GB - 1, GB + (GB - 1) }, mc \in { 4, 8 } }
ResolverClusters ==
    { [ n \in Nodes |-> IF n = PVE1 THEN r1 ELSE r2 ] :
        r1 \in { Report(d, c) : d \in DiskReports, c \in CpuMemReports },
        r2 \in SecondNodeReports }

InitResolver == Idle /\ cluster \in ResolverClusters

NextResolver ==
    \/ GetMaxDiskSize(1)
    \/ GetMaxCpu(1)
    \/ GetMaxMemory(1)
    \/ Reset(1)

SpecResolver == InitResolver /\ [][NextResolver]_vars

(***************************************************************************)
(* Properties                                                              *)
(***************************************************************************)
UploadOps == { "attach_seed_iso", "attach_base_disk", "upload" }
AttachOps == { "attach_seed_iso", "attach_base_disk" }

Entries(p, step) == { i \in DOMAIN sshlog[p] : sshlog[p][i].step = step }
Steps(p) == [ i \in DOMAIN sshlog[p] |-> sshlog[p][i].step ]
IsPrefix(s, t) == Len(s) <= Len(t) /\ SubSeq(t, 1, Len(s)) = s
PipelineOrder == << "stage", "alloc", "path", "convert", "rm" >>

HasLast(p, step) ==
    sshlog[p] # << >> /\ sshlog[p][Len(sshlog[p])].step = step
Last(p) == sshlog[p][Len(sshlog[p])]

ConfigSets(p) == { i \in DOMAIN apilog[p] : apilog[p][i].api = "config.set" }

\* what the session saw of a step that did not go well: no answer at all,
\* error text without the identifier (alloc), any error text (path, convert)
SawFailure(p, e) ==
    \/ ~e.returned
    \/ e.step = "alloc" /\ ~Contains(loc[p].storagename, e.stdout)
                        /\ e.stderr # << >>
    \/ e.step \in { "path", "convert" } /\ e.stderr # << >>

\* C1: an attach operation issues config.set only after, in the same call,
\* the file was staged, the disk allocated, its path resolved and the
\* conversion done without any of them failing; and a call in which one of
\* these steps failed has issued no config.set.
C1_BindOnlyAfterConvert ==
    \A p \in Procs :
        /\ ConfigSets(p) # {} =>
             /\ \A step \in { "stage", "alloc", "path", "convert" } :
                    \E i \in Entries(p, step) : ~SawFailure(p, sshlog[p][i])
             /\ call[p].op \in AttachOps
        /\ (\E i \in DOMAIN sshlog[p] :
               /\ sshlog[p][i].step \in { "stage", "alloc", "path", "convert" }
               /\ SawFailure(p, sshlog[p][i]))
             => ConfigSets(p) = {}

C1_Witness ==
    \E p \in Procs :
        /\ pc[p] = "done"
        /\ call[p].op = "attach_base_disk"
        /\ ConfigSets(p) # {}
        /\ Steps(p) = PipelineOrder

\* C2 as stated: the pipeline goes on after Allocate exactly when stdout
\* contains the canonical identifier and stderr is empty.
C2_Original ==
    \A p \in Procs :
        (HasLast(p, "alloc") /\ Last(p).returned) =>
            ( pc[p] # "error"
              <=> ( /\ Contains(loc[p].storagename, Last(p).stdout)
                    /\ Last(p).stderr = << >> ) )

\* C2 amended: Allocate fails, with a command invocation failure, exactly
\* when stdout lacks the canonical identifier and stderr is non-empty; for
\* the other three combinations the pipeline goes on to Resolve.
C2_AllocateFailsOnlyWithoutIdAndWithStderr ==
    \A p \in Procs :
        (HasLast(p, "alloc") /\ Last(p).returned) =>
            IF ~Contains(loc[p].storagename, Last(p).stdout)
               /\ Last(p).stderr # << >>
            THEN /\ pc[p] = "error"
                 /\ result[p].kind = "SSHCommandInvocationException"
            ELSE /\ pc[p] = "path"
                 /\ result[p].kind = "none"

C2_Witness ==
    \E p \in Procs :
        /\ HasLast(p, "alloc")
        /\ Contains(loc[p].storagename, Last(p).stdout)
        /\ Last(p).stderr # << >>
        /\ pc[p] = "path"

\* C3: the session operations of an upload are a prefix of Stage, Allocate,
\* Resolve, Convert, Cleanup (fixed order, each at most once); every
\* operation but the last one went well; when the last one failed the call
\* has ended in an exception; and a call that returned issued all five.
C3_FailFastInOrder ==
    \A p \in Procs :
        /\ IsPrefix(Steps(p), PipelineOrder)
        /\ \A i \in DOMAIN sshlog[p] :
              i < Len(sshlog[p]) => ~SawFailure(p, sshlog[p][i])
        /\ (sshlog[p] # << >> /\ SawFailure(p, Last(p)))
              => /\ pc[p] = "error"
                 /\ result[p].kind \in { "SSHCommandInvocationException",
                                         "TransportError" }
        /\ (call[p].op \in UploadOps /\ pc[p] = "error")
              => result[p].kind # "return"
        /\ (call[p].op \in UploadOps /\ pc[p] \in { "bind", "done" })
              => Steps(p) = PipelineOrder

C3_Witness ==
    \E p \in Procs :
        /\ pc[p] = "error"
        /\ Steps(p) = << "stage", "alloc", "path" >>
        /\ Last(p).stderr # << >>
        /\ result[p].kind = "SSHCommandInvocationException"

\* C4: after Resolve and after Convert, the call has failed with a command
\* invocation failure if the command's stderr was non-empty, whatever its
\* stdout, and has gone on to the next step if stderr was empty.
C4_StderrIsFatal ==
    \A p \in Procs :
        /\ (HasLast(p, "path") /\ Last(p).returned) =>
              IF Last(p).stderr # << >>
              THEN /\ pc[p] = "error"
                   /\ result[p].kind = "SSHCommandInvocationException"
              ELSE pc[p] = "convert"
        /\ (HasLast(p, "convert") /\ Last(p).returned) =>
              IF Last(p).stderr # << >>
              THEN /\ pc[p] = "error"
                   /\ result[p].kind = "SSHCommandInvocationException"
              ELSE pc[p] = "rm"

C4_Witness ==
    \E p \in Procs :
        /\ HasLast(p, "convert")
        /\ Last(p).stdout # << >>
        /\ Last(p).stderr # << >>
        /\ pc[p] = "error"

\* C5: a command invocation failure carries the stdout and the stderr that
\* the session returned for the last command issued, which is the failing
\* step's command; an allocation without the identifier and with error text
\* raises it.
C5_FailureCarriesOwnOutput ==
    \A p \in Procs :
        /\ result[p].kind = "SSHCommandInvocationException" =>
              /\ sshlog[p] # << >>
              /\ Last(p).step \in { "alloc", "path", "convert" }
              /\ Last(p).returned
              /\ result[p].stdout = Last(p).stdout
              /\ result[p].stderr = Last(p).stderr
              /\ result[p].msg =
                   CASE Last(p).step = "alloc" -> "Failed to allocate disk"
                     [] Last(p).step = "path" -> "Failed to get path for disk"
                     [] Last(p).step = "convert" ->
                            "Failed to copy file into disk"
        /\ ( /\ HasLast(p, "alloc") /\ Last(p).returned
             /\ ~Contains(loc[p].storagename, Last(p).stdout)
             /\ Last(p).stderr # << >> )
              => result[p].kind = "SSHCommandInvocationException"

\* a Resolve failure whose output differs from the allocation's output
C5_Witness ==
    \E p \in Procs :
        /\ result[p].kind = "SSHCommandInvocationException"
        /\ Steps(p) = << "stage", "alloc", "path" >>
        /\ sshlog[p][2].stdout # Last(p).stdout
        /\ sshlog[p][2].stderr # Last(p).stderr
        /\ result[p].stdout # << >>

\* C6: under every interleaving of two pipelines for different VMs, each
\* with its own session, the data a pipeline's Convert step reads from its
\* staging path is the data of the local file that pipeline staged, as it is
\* when the pipeline runs alone.
C6_ConvertReadsOwnStagedData ==
    \A p \in Procs :
        \A i \in Entries(p, "convert") :
            sshlog[p][i].returned =>
                sshlog[p][i].data = FileData(call[p].filename)

\* C7: an upload to a storage whose type is neither dir nor lvm has issued
\* nothing on the ssh session (no file transfer, no command), and once the
\* type is known the call has ended in a ValueError, the read of the
\* storage's status being the only request it made.
C7_UnknownBackendFailsBeforeSession ==
    \A p \in Procs :
        ( /\ call[p].op \in UploadOps
          /\ StorageType(call[p].storage) \notin { "dir", "lvm" } )
        => /\ sshlog[p] = << >>
           /\ pc[p] \in { "upload", "error" }
           /\ pc[p] = "error" =>
                /\ result[p].kind = "ValueError"
                /\ apilog[p] = << [ api |-> "storage.status.get",
                                    node |-> call[p].node,
                                    storage |-> call[p].storage ] >>

C7_Witness ==
    \E p \in Procs :
        /\ call[p].op = "upload"
        /\ call[p].storage = STORE_TANK
        /\ pc[p] = "error"
        /\ result[p].kind = "ValueError"

\* the value upload() handed back to its caller
UploadReturned(p) == call[p].op \in UploadOps /\ pc[p] \in { "bind", "done" }
UploadValue(p) == loc[p].attach_diskname

\* C8: on lvm storage, for either requested format, a successful upload
\* returns storage ":vm-" vmid "-" label, which has no "." format suffix,
\* and both the allocation and the conversion were given the format raw.
C8_LvmNameAndRawFormat ==
    \A p \in Procs :
        (UploadReturned(p) /\ StorageType(call[p].storage) = "lvm") =>
            /\ UploadValue(p) =
                 call[p].storage \o << ":", "v", "m", "-" >>
                    \o IntToStr(call[p].vmid) \o << "-" >> \o call[p].disk_label
            /\ \A f \in DiskFormats : ~EndsWith(UploadValue(p), << "." >> \o f)
            /\ call[p].op = "upload" => result[p] = Return(UploadValue(p))
            /\ \A i \in Entries(p, "alloc") \cup Entries(p, "convert") :
                 sshlog[p][i].cmd.format = RAW

C8_Witness ==
    \E p \in Procs :
        /\ UploadReturned(p)
        /\ call[p].storage = STORE_VG
        /\ call[p].disk_format = QCOW2
        /\ Entries(p, "convert") # {}

\* C9: on directory storage, a successful upload returns
\* storage ":" vmid "/vm-" vmid "-" label "." format for the requested
\* format, and the allocation and the conversion were given that format.
C9_DirNameAndRequestedFormat ==
    \A p \in Procs :
        (UploadReturned(p) /\ StorageType(call[p].storage) = "dir") =>
            /\ UploadValue(p) =
                 call[p].storage \o << ":" >> \o IntToStr(call[p].vmid)
                    \o << "/", "v", "m", "-" >> \o IntToStr(call[p].vmid)
                    \o << "-" >> \o call[p].disk_label
                    \o << "." >> \o call[p].disk_format
            /\ EndsWith(UploadValue(p), << "." >> \o call[p].disk_format)
            /\ call[p].op = "upload" => result[p] = Return(UploadValue(p))
            /\ \A i \in Entries(p, "alloc") \cup Entries(p, "convert") :
                 sshlog[p][i].cmd.format = call[p].disk_format

C9_Witness ==
    \E p \in Procs :
        /\ UploadReturned(p)
        /\ call[p].storage = STORE_LOCAL
        /\ call[p].disk_format = QCOW2
        /\ Entries(p, "convert") # {}

LimitCalled(p) == call[p].op = "get_max_disk_size"

\* C10 as stated: a call with exactly one of node and storage ends in an
\* error and has made no cluster query.
C10_Original ==
    \A p \in Procs :
        ( /\ LimitCalled(p)
          /\ TruthyStr(call[p].node) # TruthyStr(call[p].storage) )
        => /\ pc[p] = "error"
           /\ apilog[p] = << >>

\* C10 amended: a call with a node and no storage ends in a ValueError and
\* has made no cluster query; a call with a storage and no node raises
\* nothing: it lists the nodes and returns the cross-node minimum of maxdisk
\* in GiB, as a call with neither does.
C10_StorageRequiredOnlyWithNode ==
    \A p \in Procs :
        LimitCalled(p) =>
            /\ (TruthyStr(call[p].node) /\ ~TruthyStr(call[p].storage)) =>
                  /\ pc[p] = "error"
                  /\ result[p].kind = "ValueError"
                  /\ apilog[p] = << >>
            /\ ~TruthyStr(call[p].node) =>
                  /\ pc[p] = "done"
                  /\ apilog[p] = << [ api |-> "nodes.get" ] >>
                  /\ result[p].kind = "return"
                  /\ \A n \in Nodes :
                        result[p].value <= cluster[n].maxdisk \div GB
                  /\ \E n \in Nodes :
                        result[p].value = cluster[n].maxdisk \div GB

\* one call with a node and no storage, and one with a storage and no node
\* on a cluster where the storage's own limit differs from the value returned
C10_Witness ==
    \E p, q \in Procs :
        /\ LimitCalled(p)
        /\ call[p].node = Some(PVE1)
        /\ call[p].storage = None
        /\ pc[p] = "error"
        /\ LimitCalled(q)
        /\ call[q].node = None
        /\ call[q].storage = Some(STORE_LOCAL)
        /\ pc[q] = "done"
        /\ \A n \in Nodes :
              result[q].value # cluster[n].avail[STORE_LOCAL] \div GB

\* C11: without an explicit size, the size given to the allocation command is
\* the file's byte size divided by 1024 and rounded up: the least number of
\* kilobytes that holds the file.
C11_SizeIsCeilOfFileSize ==
    \A p \in Procs :
        \A i \in Entries(p, "alloc") :
            call[p].disk_size = None =>
                LET size  == sshlog[p][i].cmd.size
                    bytes == st_size(call[p].filename)
                IN  /\ size * KB >= bytes
                    /\ (size - 1) * KB < bytes

\* a finished call of a resolver for one named node (and storage)
PerNodeDone(p, op) ==
    /\ call[p].op = op
    /\ TruthyStr(call[p].node)
    /\ pc[p] = "done"

\* the cross-node value of get_max_disk_size() on the present cluster state
CrossNodeDisk == get_max_disk_size(cluster, None, None).result.value

NodeDiskLimit(n) ==
    SetMin({ get_max_disk_size(cluster, Some(n), Some(s)).result.value :
                s \in ResolverStorages })

\* C13: called without a node, each resolver returns the minimum over all
\* nodes of what it returns for that node.
C13_NoNodeIsMinOfPerNode ==
    \A p \in Procs :
        (pc[p] = "done" /\ call[p].op \in { "get_max_cpu", "get_max_memory",
                                            "get_max_disk_size" }
                        /\ ~TruthyStr(call[p].node)) =>
            result[p].value =
                CASE call[p].op = "get_max_cpu" ->
                       SetMin({ get_max_cpu(cluster, Some(n)).result.value :
                                   n \in Nodes })
                  [] call[p].op = "get_max_memory" ->
                       SetMin({ get_max_memory(cluster, Some(n)).result.value :
                                   n \in Nodes })
                  [] call[p].op = "get_max_disk_size" ->
                       SetMin({ NodeDiskLimit(n) : n \in Nodes })

\* C14: for a named node, get_max_cpu is sockets times cores, get_max_memory
\* is the whole MiB in the total memory and get_max_disk_size is the whole
\* GiB in the available bytes of the named storage; 2 sockets of 4 cores
\* give 8 and 16384 MiB give 16384.
C14_PerNodeValues ==
    \A p \in Procs :
        LET n == cluster[call[p].node[1]]
            v == result[p].value
        IN  /\ PerNodeDone(p, "get_max_cpu") =>
                /\ v = n.sockets * n.cpus
                /\ (n.sockets = 2 /\ n.cpus = 4) => v = 8
            /\ PerNodeDone(p, "get_max_memory") =>
                /\ n.memtotal.rest - (v - n.memtotal.mib) * MB \in 0..(MB - 1)
                /\ n.memtotal = Wide(16384, 0) => v = 16384
            /\ PerNodeDone(p, "get_max_disk_size") =>
                n.avail[call[p].storage[1]] - v * GB \in 0..(GB - 1)

\* the node of the scenario: 2 sockets of 4 cores, 16384 MiB
C14_Witness ==
    \E p \in Procs :
        /\ PerNodeDone(p, "get_max_memory")
        /\ call[p].node = Some(PVE1)
        /\ cluster[PVE1].sockets = 2
        /\ cluster[PVE1].cpus = 4
        /\ cluster[PVE1].memtotal = Wide(16384, 0)
        /\ result[p].value = 16384

ConvertSucceeded(p) == HasLast(p, "convert") /\ ~SawFailure(p, Last(p))
RmIssued(p) == HasLast(p, "rm")

\* C15: once Convert has succeeded the removal command is issued; the path
\* it removes is the path Stage wrote and Convert read in the same upload;
\* and no upload has returned without having issued the removal.
C15_RemovalFollowsConvert ==
    /\ [](\A p \in Procs :
            /\ \A i \in Entries(p, "rm") :
                  /\ \E k \in Entries(p, "stage") :
                        /\ sshlog[p][k].returned
                        /\ sshlog[p][k].cmd.path = sshlog[p][i].cmd.path
                  /\ \E k \in Entries(p, "convert") :
                        sshlog[p][k].cmd.src = sshlog[p][i].cmd.path
            /\ UploadReturned(p) => Entries(p, "rm") # {})
    /\ \A p \in Procs : ConvertSucceeded(p) ~> RmIssued(p)

C15_Witness ==
    \E p \in Procs :
        /\ RmIssued(p)
        /\ Last(p).cmd.path = tmpfile_of(call[p].filename)
        /\ sshlog[p][4].step = "convert"
        /\ sshlog[p][4].data = FileData(call[p].filename)
        /\ UploadReturned(p)

PipelineTools == { "upload_file_obj", "pvesm alloc", "pvesm path",
                   "qemu-img convert", "rm" }

\* C16: a call in which Allocate, Resolve or Convert failed has issued no rm
\* and no other command than those of the steps it went through, and the
\* staging file still holds what Stage wrote.
C16_NoRollback ==
    \A p \in Procs :
        (\E i \in DOMAIN sshlog[p] :
            /\ sshlog[p][i].step \in { "alloc", "path", "convert" }
            /\ SawFailure(p, sshlog[p][i]))
        => /\ pc[p] = "error"
           /\ \A k \in DOMAIN sshlog[p] :
                 sshlog[p][k].cmd.tool \in PipelineTools \ { "rm" }
           /\ Len(sshlog[p]) <= 4
           /\ remote[loc[p].tmpfile] = FileData(call[p].filename)
           /\ ConfigSets(p) = {}

C16_Witness ==
    \E p \in Procs :
        /\ pc[p] = "error"
        /\ Steps(p) = << "stage", "alloc", "path", "convert" >>
        /\ Last(p).returned
        /\ Last(p).stderr # << >>
        /\ remote[loc[p].tmpfile] = FileData(call[p].filename)

\* C17: once rm has returned, whatever it printed, upload has returned the
\* canonical identifier and raised nothing, and an attach operation binds
\* it; when rm printed an error the staging file is still on the host.
C17_CleanupResultIgnored ==
    \A p \in Procs :
        (HasLast(p, "rm") /\ Last(p).returned) =>
            /\ UploadReturned(p)
            /\ result[p].kind \in { "none", "return" }
            /\ \E i \in Entries(p, "path") :
                  UploadValue(p) = sshlog[p][i].cmd.storagename
            /\ call[p].op = "upload" => result[p] = Return(UploadValue(p))
            /\ (call[p].op \in AttachOps /\ pc[p] = "done") =>
                  \E i \in ConfigSets(p) :
                      \E f \in DOMAIN apilog[p][i].fields :
                          apilog[p][i].fields[f] = UploadValue(p)
            /\ Last(p).stderr # << >> =>
                  remote[loc[p].tmpfile] = FileData(call[p].filename)

C17_Witness ==
    \E p \in Procs :
        /\ HasLast(p, "rm")
        /\ Last(p).stderr # << >>
        /\ call[p].op = "attach_seed_iso"
        /\ pc[p] = "done"
        /\ ConfigSets(p) # {}
        /\ remote[loc[p].tmpfile] # NoFile

\* C18: the one config.set of an attach operation binds the canonical
\* identifier of the same call: the one Resolve was asked for and the one
\* the allocation's output was searched for.  attach_seed_iso sets virtio1
\* and nothing else; attach_base_disk sets virtio0 and bootdisk = virtio0 in
\* that same request.
C18_BindsTheAllocatedIdentifier ==
    \A p \in Procs :
        \A i \in ConfigSets(p) :
            LET set == apilog[p][i]
                id  == IF "virtio1" \in DOMAIN set.fields
                       THEN set.fields.virtio1 ELSE set.fields.virtio0
            IN  /\ ConfigSets(p) = { i }
                /\ set.vmid = call[p].vmid
                /\ set.node = call[p].node
                /\ call[p].op = "attach_seed_iso" =>
                      set.fields = [ virtio1 |-> id ]
                /\ call[p].op = "attach_base_disk" =>
                      set.fields = [ virtio0 |-> id, bootdisk |-> "virtio0" ]
                /\ \E k \in Entries(p, "path") :
                      sshlog[p][k].cmd.storagename = id
                /\ \A k \in Entries(p, "alloc") :
                      sshlog[p][k].stderr # << >> =>
                          Contains(id, sshlog[p][k].stdout)
                /\ id = IF StorageType(call[p].storage) = "lvm"
                        THEN lvm_storagename(call[p].storage,
                                lvm_diskname(call[p].vmid, call[p].disk_label))
                        ELSE flat_storagename(call[p].storage, call[p].vmid,
                                flat_diskname(call[p].vmid, call[p].disk_label,
                                              call[p].disk_format))

C18_Witness ==
    \E p \in Procs :
        /\ call[p].op = "attach_base_disk"
        /\ call[p].storage = STORE_VG
        /\ pc[p] = "done"
        /\ ConfigSets(p) # {}
        /\ \E k \in Entries(p, "alloc") : sshlog[p][k].stderr # << >>

\* C19: the size given to the allocation command for the base disk is the
\* disk_size attach_base_disk was called with, whatever its value, and is
\* never computed from the file.
C19_BaseDiskSizeIsExplicit ==
    \A p \in Procs :
        call[p].op = "attach_base_disk" =>
            \A i \in Entries(p, "alloc") :
                /\ call[p].disk_size # None
                /\ sshlog[p][i].cmd.size = call[p].disk_size[1]

====
